---- MODULE Spec2Model ----
(***************************************************************************)
(* Scribe: changelog generation, publication and deletion over two         *)
(* collections (projects, changelogs).  Each HTTP handler is split at its  *)
(* awaits on the document store, so that concurrent requests interleave    *)
(* exactly where the runtime lets them.                                    *)
(***************************************************************************)
EXTENDS Integers, Sequences, FiniteSets, TLC

\* ------------------------------------------------------------------ bounds
NumProcs == 2
MaxRequests == 2
MaxTime == 1
MaxCommits == 2

\* --------------------------------------------------------- program constants
MinCommitCount == 1
MaxCommitCount == 100
\* fetchRecentCommitsByCount's own limit, and GitHub's largest page.
MaxAdapterCount == 1000
GitHubPerPage == 100

\* ------------------------------------------------------------ value domains
NULL == "null"
\* Absent optional fields: a timestamp that was never set, a text never set.
NoTime == -1
NoText == <<NULL>>
NoSession == "none"
Users == {"u1", "u2"}
Sessions == Users \cup {NoSession}
Procs == 1..NumProcs
Ids == 1..(2 * MaxRequests + 4)
ProjectNameInputs == {"Widgets"}

\* A repository URL is the token sequence owner, repo, then trailing slashes;
\* the fixed prefix https://github.com/ is left implicit.
RepoUrlInputs ==
  { <<"acme", "widgets">>, <<"acme", "widgets", "/">>,
    <<"acme", "gadgets">>, <<"acme", "widgets", "/", "/">> }
CommitCountInputs == {0, 100, 101}

\* Texts are token sequences; " " is a whitespace token.
SummaryInputs == { <<>>, <<"Added X">>, <<" ", "Added X", " ">> }
LlmTexts == { <<" ", "Features", " ">>, <<" ">> }

\* ------------------------------------------------------------ pure helpers
RECURSIVE TrimLeft(_)
TrimLeft(s) == IF s # <<>> /\ Head(s) = " " THEN TrimLeft(Tail(s)) ELSE s

RECURSIVE TrimRight(_)
TrimRight(s) ==
  IF s # <<>> /\ s[Len(s)] = " " THEN TrimRight(SubSeq(s, 1, Len(s) - 1)) ELSE s

Trim(s) == TrimRight(TrimLeft(s))

\* String.prototype.includes on token sequences.
Includes(msg, needle) ==
  \E i \in 1..(Len(msg) - Len(needle) + 1) :
    SubSeq(msg, i, i + Len(needle) - 1) = needle

LowerTok(t) ==
  CASE t = "GitHub" -> "github"
    [] t = "Repository" -> "repository"
    [] t = "Authentication" -> "authentication"
    [] t = "Invalid" -> "invalid"
    [] t = "API" -> "api"
    [] t = "AI" -> "ai"
    [] t = "Gemini" -> "gemini"
    [] t = "Access" -> "access"
    [] t = "Content" -> "content"
    [] t = "Failed" -> "failed"
    [] t = "No" -> "no"
    [] t = "GEMINI_" -> "gemini_"
    [] t = "API_KEY" -> "api_key"
    [] t = "E11000" -> "e11000"
    [] t = "Added X" -> "added x"
    [] t = "Fixed Y" -> "fixed y"
    [] OTHER -> t

ToLowerCase(msg) == [i \in 1..Len(msg) |-> LowerTok(msg[i])]

\* githubUrlRegex: two name segments and at most one trailing slash.
IsGithubUrl(u) ==
  /\ Len(u) \in {2, 3}
  /\ u[1] # "/" /\ u[2] # "/"
  /\ Len(u) = 3 => u[3] = "/"

\* Mutation: the trailing slash is kept.
NormalizeRepoUrl_Keep(u) == u

\* repo_url.replace(/\/$/, '')
NormalizeRepoUrl(u) ==
  IF u # <<>> /\ u[Len(u)] = "/" THEN SubSeq(u, 1, Len(u) - 1) ELSE u

UrlText(u) == <<"https://", "github", ".com/">> \o u

\* ---------------------------------------------------------- error messages
MsgAuthRequired == <<"Authentication", "required">>
MsgRepoAccessRequired == <<"Repository", "access", "required">>
MsgChangelogNotFound == <<"Changelog", "not", "found">>
MsgProjectNotFound == <<"Project", "not", "found">>
MsgChangelogOwnership == <<"Access", "denied:", "Changelog", "ownership", "required">>
MsgProjectOwnership == <<"Access", "denied:", "Project", "ownership", "required">>
MsgDuplicateKey == <<"E11000", "duplicate", "key", "error", "collection">>
MsgDocumentNotFound == <<"No", "document", "found", "for", "query">>

\* GitHubService.verifyRepositoryAccess / verifyUserRepositoryAccess: the
\* error text that accompanies canAccess = false.
AccessOutcomes == {"ok", "notfound", "forbidden", "apierror"}
RepositoryAccessError(o) ==
  CASE o = "notfound" -> <<"Repository", "not", "found", "or", "access", "denied">>
    [] o = "forbidden" -> <<"Access", "forbidden", "-", "insufficient", "permissions">>
    [] OTHER -> <<"GitHub", "API", "error:", "failure">>

\* requireAuthAndRepositoryAccess: throws error || 'Repository access required'.
RepositoryAccessThrown(o) ==
  IF RepositoryAccessError(o) # <<>> THEN RepositoryAccessError(o)
  ELSE MsgRepoAccessRequired

\* _fetchGitHubRecentCommits catch block, wrapped by fetchRecentCommitsByCount.
FetchFailures == {"404", "403", "401", "other"}
FetchInnerError(f) ==
  CASE f = "404" -> <<"Repository", "not", "found", "or", "access", "denied">>
    [] f = "403" -> <<"GitHub", "API", "rate", "limit", "exceeded", "or",
                     "insufficient", "permissions">>
    [] f = "401" -> <<"Invalid", "GitHub", "token", "or", "unauthorized", "access">>
    [] OTHER -> <<"GitHub", "API", "error:", "failure">>
FetchErrorMessage(u, f) ==
  <<"Failed", "to", "fetch", "recent", "commits", "from">> \o UrlText(u)
    \o <<":">> \o FetchInnerError(f)

\* Raw failures of the model call, as seen by generateSummary's catch.
MsgLlmTimerRaw ==
  <<"Gemini", "AI", "request", "timed", "out", "after", "15000ms">>
MsgLlmEmptyRaw == <<"Gemini", "AI", "returned", "empty", "response">>
LlmFailures == {"apikey", "quota", "safety", "other"}
LlmRawError(f) ==
  CASE f = "apikey" -> <<"GEMINI_", "API_KEY", "environment", "variable",
                        "is", "required">>
    [] f = "quota" -> <<"quota", "exceeded">>
    [] f = "safety" -> <<"blocked", "for", "safety">>
    [] OTHER -> <<"fetch", "failed">>

\* generateSummary catch (llmService.ts): rewrites the raw message.
LlmErrorMessage(raw) ==
  IF Includes(raw, <<"timeout">>)
    THEN <<"AI", "changelog", "generation", "timed", "out", "after", "15", "seconds">>
  ELSE IF Includes(raw, <<"API_KEY">>)
    THEN <<"Invalid", "or", "missing", "Gemini", "API", "key", ".", "Please",
           "check", "your", "GEMINI_", "API_KEY", "environment", "variable", ".">>
  ELSE IF Includes(raw, <<"quota">>) \/ Includes(raw, <<"rate", "limit">>)
    THEN <<"Gemini", "AI", "quota", "exceeded", "or", "rate", "limit", "ed.">>
  ELSE IF Includes(raw, <<"safety">>)
    THEN <<"Content", "was", "blocked", "by", "Gemini", "AI", "safety", "filters">>
  ELSE <<"AI", "changelog", "generation", "failed:">> \o raw

\* Mutation: the duplicate-key test is missing from the catch block.
GenerateErrorStatus_NoDuplicateKey(msg) ==
  IF Includes(msg, <<"Authentication", "required">>) THEN 401
  ELSE IF Includes(msg, <<"Repository", "access", "required">>) THEN 403
  ELSE IF Includes(msg, <<"connection">>) \/ Includes(msg, <<"database">>) THEN 500
  ELSE LET m == ToLowerCase(msg) IN
    IF Includes(m, <<"github">>) \/ Includes(m, <<"repository", "not", "found">>)
      THEN 404
    ELSE IF \/ Includes(m, <<"authentication">>)
            \/ Includes(m, <<"api", "key">>)
            \/ Includes(m, <<"token">>)
      THEN 401
    ELSE IF Includes(m, <<"timeout">>) \/ Includes(m, <<"timed", "out">>) THEN 408
    ELSE IF Includes(m, <<"rate", "limit">>) \/ Includes(m, <<"quota">>) THEN 429
    ELSE 500

\* Mutation: the catch block looks for 'timeout' only, as generateSummary does.
GenerateErrorStatus_TimeoutOnly(msg) ==
  IF Includes(msg, <<"Authentication", "required">>) THEN 401
  ELSE IF Includes(msg, <<"Repository", "access", "required">>) THEN 403
  ELSE IF Includes(msg, <<"duplicate", "key">>) THEN 409
  ELSE IF Includes(msg, <<"connection">>) \/ Includes(msg, <<"database">>) THEN 500
  ELSE LET m == ToLowerCase(msg) IN
    IF Includes(m, <<"github">>) \/ Includes(m, <<"repository", "not", "found">>)
      THEN 404
    ELSE IF \/ Includes(m, <<"authentication">>)
            \/ Includes(m, <<"api", "key">>)
            \/ Includes(m, <<"token">>)
      THEN 401
    ELSE IF Includes(m, <<"timeout">>) THEN 408
    ELSE IF Includes(m, <<"rate", "limit">>) \/ Includes(m, <<"quota">>) THEN 429
    ELSE 500

\* Catch block of the generate route: status from the error's message.
GenerateErrorStatus(msg) ==
  IF Includes(msg, <<"Authentication", "required">>) THEN 401
  ELSE IF Includes(msg, <<"Repository", "access", "required">>) THEN 403
  ELSE IF Includes(msg, <<"duplicate", "key">>) THEN 409
  ELSE IF Includes(msg, <<"connection">>) \/ Includes(msg, <<"database">>) THEN 500
  ELSE LET m == ToLowerCase(msg) IN
    IF Includes(m, <<"github">>) \/ Includes(m, <<"repository", "not", "found">>)
      THEN 404
    ELSE IF \/ Includes(m, <<"authentication">>)
            \/ Includes(m, <<"api", "key">>)
            \/ Includes(m, <<"token">>)
      THEN 401
    ELSE IF Includes(m, <<"timeout">>) \/ Includes(m, <<"timed", "out">>) THEN 408
    ELSE IF Includes(m, <<"rate", "limit">>) \/ Includes(m, <<"quota">>) THEN 429
    ELSE 500

\* Catch block shared by the two delete routes.
DeleteErrorStatus(msg) ==
  IF Includes(msg, <<"Authentication", "required">>) THEN 401
  ELSE IF Includes(msg, <<"ownership", "required">>) THEN 403
  ELSE 500

\* Mutation: every caller passes for authenticated.
IsAuthenticated_Open(session) == TRUE

\* requireAuth: the caller's identity, or the thrown message.
IsAuthenticated(session) == session \in Users

\* Mutation: the creator comparison is skipped.
IsChangelogOwner_Any(c, userId) == TRUE

\* Mutation: a changelog without creator belongs to every caller.
IsChangelogOwner_OrUnowned(c, userId) ==
  c.created_by = userId \/ c.created_by = NULL

\* checkChangelogOwnership / checkProjectOwnership: strict equality with the
\* stored owner reference.
IsChangelogOwner(c, userId) == c.created_by = userId

\* Mutation: the owner comparison is skipped.
IsProjectOwner_Any(pr, userId) == TRUE

IsProjectOwner(pr, userId) == pr.owner_id = userId

\* -------------------------------------------------------------------- state
VARIABLES
  projects,    \* Project collection: id -> document
  changelogs,  \* Changelog collection: id -> document
  req,         \* per handler invocation: inputs, locals and position
  now,         \* the wall clock read by new Date()
  nextId,      \* source of fresh identifiers (uuidv4)
  started,     \* number of requests accepted so far
  global_mongoose,  \* the cache of lib/mongodb: conn and promise
  promises     \* the connection promises created so far: id -> state

vars == <<projects, changelogs, req, now, nextId, started, global_mongoose,
          promises>>

IdleReq ==
  [ kind |-> "none", pc |-> "idle", session |-> NoSession, repo_url |-> <<>>,
    project_name |-> NULL, commit_count |-> 0, bodyOk |-> TRUE,
    target |-> 0, text |-> <<>>,
    proj |-> 0, setOwner |-> FALSE, isNew |-> FALSE, commits |-> <<>>, cid |-> 0,
    resp_count |-> 0, remote |-> 0, page |-> 0, fetched |-> 0, seq |-> 0,
    result |-> <<>>,
    llm |-> "none", failure |-> <<>>, status |-> 0 ]

\* lib/mongodb after an earlier request has connected: the handlers below run
\* on the cached connection.
Connection == "mongoose.connection"
Connected == [conn |-> Connection, promise |-> 1]

\* The store as one earlier generate request by u1 for acme/gadgets left it:
\* project 1 and its draft changelog 2.
SeedProjects ==
  (1 :> [ name |-> "Gadgets", repo_url |-> <<"acme", "gadgets">>,
          owner_id |-> "u1", updated_at |-> 0 ])
SeedChangelogs ==
  (2 :> [ project_id |-> 1, created_by |-> "u1", summary_ai |-> <<"Features">>,
          summary_final |-> NoText, commit_hashes |-> <<1>>,
          published_at |-> NoTime, status |-> "draft" ])

Init ==
  /\ projects = SeedProjects /\ changelogs = SeedChangelogs /\ nextId = 3
  /\ req = [p \in Procs |-> IdleReq]
  /\ now = 0
  /\ started = 0
  /\ global_mongoose = Connected /\ promises = <<"resolved">>

\* A new invocation takes the lowest idle slot, or else the lowest finished one.
Free(p) ==
  /\ started < MaxRequests
  /\ IF \E q \in Procs : req[q].pc = "idle"
       THEN req[p].pc = "idle" /\ \A q \in 1..(p - 1) : req[q].pc # "idle"
       ELSE req[p].pc = "done" /\ \A q \in 1..(p - 1) : req[q].pc # "done"

\* A well-formed identifier that resolves to no document, and a string that is
\* not a UUID at all.
NoSuchId == 0
MalformedId == -1
TargetInputs(coll) == DOMAIN coll \cup {NoSuchId, MalformedId}

\* z.string().uuid()
IsUuid(id) == id >= 0

Remove(f, k) == [x \in (DOMAIN f) \ {k} |-> f[x]]
Put(f, k, v) == [x \in (DOMAIN f) \cup {k} |-> IF x = k THEN v ELSE f[x]]

\* The handler returns before its first await on a collection: the request as
\* received and the outcome stay on record.
Reject(p, r, code) ==
  req' = [req EXCEPT ![p] =
    [r EXCEPT !.pc = "done", !.status = code,
              !.project_name = NULL, !.repo_url = <<>>, !.text = <<>>]]

\* The handler returns from a later step: only the outcome stays on record.
Respond(p, r, code) ==
  req' = [req EXCEPT ![p] =
    [IdleReq EXCEPT !.kind = r.kind, !.pc = "done", !.status = code,
                    !.llm = r.llm, !.failure = r.failure,
                    !.resp_count = IF code = 201 THEN r.resp_count ELSE 0]]

\* Mutation: the lookup never finds a project.
FindByRepoUrl_Miss(url) == 0

\* Project.findByRepoUrl: exact match on the stored repo_url; 0 when absent.
FindByRepoUrl(url) ==
  IF \E i \in DOMAIN projects : projects[i].repo_url = url
    THEN CHOOSE i \in DOMAIN projects : projects[i].repo_url = url
    ELSE 0

\* Mutation: repo_url carries no unique index.
RepoUrlIndexAdmits_NoIndex(url) == TRUE

\* Unique index on Project.repo_url: may a document with this url be inserted?
RepoUrlIndexAdmits(url) == \A i \in DOMAIN projects : projects[i].repo_url # url

\* The remote history, most recent first: a commit is known by its sha, and
\* the sha of the i-th most recent commit is written i.
RemoteLog(n) == [i \in 1..n |-> [sha |-> i]]

\* Mutation: the hashes are stored oldest first.
CommitHashes_Reversed(commits) ==
  [i \in 1..Len(commits) |-> commits[Len(commits) + 1 - i].sha]

\* commits.map(commit => commit.sha)
CommitHashes(commits) == [i \in 1..Len(commits) |-> commits[i].sha]

\* new Changelog({... status: 'draft'}) with the schema defaults.
NewChangelog(projectId, userId, summaryAi, commits) ==
  [ project_id |-> projectId, created_by |-> userId, summary_ai |-> summaryAi,
    summary_final |-> NoText, commit_hashes |-> CommitHashes(commits),
    published_at |-> NoTime, status |-> "draft" ]

\* Mutation: publishing a published changelog takes it back to draft.
PublishedChangelog_Toggle(c, text, t) ==
  IF c.status = "published"
    THEN [c EXCEPT !.summary_final = NoText, !.published_at = NoTime,
                   !.status = "draft"]
    ELSE [c EXCEPT !.summary_final = Trim(text), !.published_at = t,
                   !.status = "published"]

\* Mutation: summary_final is stored as submitted.
PublishedChangelog_Raw(c, text, t) ==
  [c EXCEPT !.summary_final = text, !.published_at = t, !.status = "published"]

\* Mutation: the update document lacks published_at.
PublishedChangelog_NoTimestamp(c, text, t) ==
  [c EXCEPT !.summary_final = Trim(text), !.status = "published"]

\* The update document of Changelog.findOneAndUpdate in the publish route;
\* the schema's trim setter is applied to summary_final.
PublishedChangelog(c, text, t) ==
  [c EXCEPT !.summary_final = Trim(text), !.published_at = t,
            !.status = "published"]

\* publishChangelogSchema: a UUID and a summary_final of at least one character.
PublishBodyValid(id, text) == IsUuid(id) /\ Len(text) >= 1

\* DeleteChangelogRequest / DeleteProjectRequest: a UUID.
DeleteBodyValid(id) == IsUuid(id)

\* Mutation: the already-published test is missing.
IsPublished_Never(c) == FALSE

\* changelog.status === 'published'
IsPublished(c) == c.status = "published"

\* Mutation: the schema puts no bounds on commit_count.
GenerateBodyValid_AnyCount(url, count) == IsGithubUrl(url)

\* GenerateChangelogRequest (zod).
GenerateBodyValid(url, count) ==
  IsGithubUrl(url) /\ count >= MinCommitCount /\ count <= MaxCommitCount

\* ------------------------------------------------------------------- clock
\* new Date(): the clock's last reading, or a later one.  Time is taken to
\* pass only when the last reading has been stored somewhere: a reading
\* nobody stored cannot be told from the next one.
ClockRead ==
  \/ \E i \in DOMAIN projects : projects[i].updated_at = now
  \/ \E i \in DOMAIN changelogs : changelogs[i].published_at = now

NewDate == IF now < MaxTime /\ ClockRead THEN {now, now + 1} ELSE {now}

\* ------------------------------------------------- generate-changelog POST
\* Body validation, requireAuthAndRepositoryAccess, then Project.findByRepoUrl.
GenerateBegin(p) ==
  /\ Free(p)
  /\ \E s \in Sessions, u \in RepoUrlInputs, n \in ProjectNameInputs,
        c \in CommitCountInputs :
       LET r == [IdleReq EXCEPT !.kind = "generate", !.session = s,
                                !.repo_url = u, !.project_name = n,
                                !.commit_count = c,
                                !.bodyOk = GenerateBodyValid(u, c)]
           f == FindByRepoUrl(NormalizeRepoUrl(u))
       IN  IF ~r.bodyOk THEN Reject(p, r, 400)
           ELSE IF ~IsAuthenticated(s)
             THEN Reject(p, r, GenerateErrorStatus(MsgAuthRequired))
           ELSE \E a \in AccessOutcomes :
             IF a # "ok"
               THEN Reject(p, [r EXCEPT !.failure = <<"access", a>>],
                           GenerateErrorStatus(RepositoryAccessThrown(a)))
             ELSE IF f # 0
               THEN req' = [req EXCEPT ![p] =
                      [r EXCEPT !.pc = "save", !.proj = f,
                                !.setOwner = (projects[f].owner_id = NULL)]]
             ELSE req' = [req EXCEPT ![p] = [r EXCEPT !.pc = "insert"]]
  /\ started' = started + 1
  /\ UNCHANGED <<projects, changelogs, now, nextId, global_mongoose, promises>>

\* project.save() on the document that the lookup returned.
GenerateSaveExisting(p) ==
  /\ req[p].kind = "generate" /\ req[p].pc = "save"
  /\ LET r == req[p] IN
       IF r.proj \notin DOMAIN projects
         THEN /\ Respond(p, r, GenerateErrorStatus(MsgDocumentNotFound))
              /\ UNCHANGED <<projects, now>>
         ELSE /\ \E t \in NewDate :
                   /\ now' = t
                   /\ projects' = [projects EXCEPT ![r.proj] =
                        [@ EXCEPT !.owner_id = IF r.setOwner THEN r.session ELSE @,
                                  !.updated_at = t]]
              /\ req' = [req EXCEPT ![p] = [@ EXCEPT !.pc = "fetch", !.setOwner = FALSE]]
  /\ UNCHANGED <<changelogs, nextId, started, global_mongoose, promises>>

\* new Project({...}).save()
GenerateInsert(p) ==
  /\ req[p].kind = "generate" /\ req[p].pc = "insert"
  /\ LET r == req[p]
         url == NormalizeRepoUrl(r.repo_url)
     IN  IF ~RepoUrlIndexAdmits(url)
           THEN /\ Respond(p, r, GenerateErrorStatus(MsgDuplicateKey))
                /\ UNCHANGED <<projects, nextId, now>>
           ELSE /\ \E t \in NewDate :
                     /\ now' = t
                     /\ projects' = Put(projects, nextId,
                          [ name |-> r.project_name, repo_url |-> url,
                            owner_id |-> r.session, updated_at |-> t ])
                /\ nextId' = nextId + 1
                /\ req' = [req EXCEPT ![p] =
                     [@ EXCEPT !.pc = "fetch", !.proj = nextId, !.isNew = TRUE]]
  /\ UNCHANGED <<changelogs, started, global_mongoose, promises>>

Min(a, b) == IF a <= b THEN a ELSE b

\* Mutation: an empty commit list is passed on to the summary step.
GenerateFetch_EmptyProceeds(p) ==
  /\ req[p].kind = "generate" /\ req[p].pc = "fetch"
  /\ LET r == req[p] IN
       \/ \E f \in FetchFailures :
            Respond(p, r, GenerateErrorStatus(
                            FetchErrorMessage(NormalizeRepoUrl(r.repo_url), f)))
       \/ \E n \in 0..MaxCommits :
            req' = [req EXCEPT ![p] =
              [@ EXCEPT !.pc = "llm",
                        !.commits = SubSeq(RemoteLog(n), 1, Min(r.commit_count, n)),
                        !.llm = "pending", !.commit_count = 0,
                        !.repo_url = <<>>, !.project_name = NULL]]
  /\ UNCHANGED <<projects, changelogs, now, nextId, started,
               global_mongoose, promises>>

\* fetchRecentCommitsByCount: a failure, or the first min(count, N) commits.
GenerateFetch(p) ==
  /\ req[p].kind = "generate" /\ req[p].pc = "fetch"
  /\ LET r == req[p] IN
       \/ \E f \in FetchFailures :
            Respond(p, [r EXCEPT !.failure = <<"source", f>>],
                    GenerateErrorStatus(
                      FetchErrorMessage(NormalizeRepoUrl(r.repo_url), f)))
       \/ \E n \in 0..MaxCommits :
            LET k == Min(r.commit_count, n) IN
              IF k = 0 THEN Respond(p, r, 400)
              ELSE req' = [req EXCEPT ![p] =
                     [@ EXCEPT !.pc = "llm", !.commits = SubSeq(RemoteLog(n), 1, k),
                               !.llm = "pending",
                               !.commit_count = 0, !.repo_url = <<>>,
                               !.project_name = NULL]]
  /\ UNCHANGED <<projects, changelogs, now, nextId, started,
               global_mongoose, promises>>

\* generateSummary: the model call settles before the timer.
GenerateLlmRespond(p) ==
  /\ req[p].kind = "generate" /\ req[p].pc = "llm" /\ req[p].llm = "pending"
  /\ LET r == [req[p] EXCEPT !.llm = "responded"] IN
       \/ \E f \in LlmFailures :
            Respond(p, [r EXCEPT !.failure = <<"llm", f>>],
                    GenerateErrorStatus(LlmErrorMessage(LlmRawError(f))))
       \/ \E t \in LlmTexts :
            IF Len(Trim(t)) = 0
              THEN Respond(p, [r EXCEPT !.failure = <<"llm", "empty">>],
                     GenerateErrorStatus(LlmErrorMessage(MsgLlmEmptyRaw)))
              ELSE req' = [req EXCEPT ![p] = [r EXCEPT !.pc = "savecl", !.text = Trim(t)]]
  /\ UNCHANGED <<projects, changelogs, now, nextId, started,
               global_mongoose, promises>>

\* generateSummary: the GENERATION_TIMEOUT timer wins Promise.race.
GenerateLlmTimeout(p) ==
  /\ req[p].kind = "generate" /\ req[p].pc = "llm" /\ req[p].llm = "pending"
  /\ Respond(p, [req[p] EXCEPT !.llm = "timedout",
                              !.failure = <<"llm", "timeout">>],
             GenerateErrorStatus(LlmErrorMessage(MsgLlmTimerRaw)))
  /\ UNCHANGED <<projects, changelogs, now, nextId, started,
               global_mongoose, promises>>

\* The abandoned model call settles after the race was lost.
LlmLateResponse(p) ==
  /\ req[p].kind = "generate" /\ req[p].llm = "timedout"
  /\ req' = [req EXCEPT ![p].llm = "late"]
  /\ UNCHANGED <<projects, changelogs, now, nextId, started,
               global_mongoose, promises>>

\* new Changelog({...}).save()
GenerateSaveChangelog(p) ==
  /\ req[p].kind = "generate" /\ req[p].pc = "savecl"
  /\ LET r == req[p] IN
       /\ changelogs' = Put(changelogs, nextId,
            NewChangelog(r.proj, r.session, r.text, r.commits))
       /\ req' = [req EXCEPT ![p] =
            [@ EXCEPT !.pc = "touch", !.cid = nextId, !.text = <<>>,
                      !.commits = <<>>, !.resp_count = Len(r.commits),
                      !.session = NoSession, !.isNew = FALSE]]
  /\ nextId' = nextId + 1
  /\ UNCHANGED <<projects, now, started, global_mongoose, promises>>

\* project.updateTimestamp(), then the 201 response.
GenerateUpdateTimestamp(p) ==
  /\ req[p].kind = "generate" /\ req[p].pc = "touch"
  /\ LET r == req[p] IN
       IF r.proj \notin DOMAIN projects
         THEN /\ Respond(p, r, GenerateErrorStatus(MsgDocumentNotFound))
              /\ UNCHANGED <<projects, now>>
         ELSE /\ \E t \in NewDate :
                   /\ now' = t
                   /\ projects' = [projects EXCEPT ![r.proj].updated_at = t]
              /\ Respond(p, r, 201)
  /\ UNCHANGED <<changelogs, nextId, started, global_mongoose, promises>>

\* -------------------------------------------------- publish-changelog POST
\* Body validation, then Changelog.findOne and the status check.
PublishBegin(p) ==
  /\ Free(p)
  /\ \E s \in Sessions, c \in TargetInputs(changelogs), t \in SummaryInputs :
       LET r == [IdleReq EXCEPT !.kind = "publish", !.session = s,
                                !.target = c, !.text = t,
                                !.bodyOk = PublishBodyValid(c, t)]
       IN  IF ~r.bodyOk THEN Reject(p, r, 400)
           ELSE IF c \notin DOMAIN changelogs THEN Reject(p, r, 404)
           ELSE IF IsPublished(changelogs[c]) THEN Reject(p, r, 409)
           ELSE req' = [req EXCEPT ![p] = [r EXCEPT !.pc = "update"]]
  /\ started' = started + 1
  /\ UNCHANGED <<projects, changelogs, now, nextId, global_mongoose, promises>>

\* Mutation: the update is an upsert, a missing changelog is written anew.
PublishUpdate_Upsert(p) ==
  /\ req[p].kind = "publish" /\ req[p].pc = "update"
  /\ LET r == req[p]
         old == IF r.target \in DOMAIN changelogs THEN changelogs[r.target]
                ELSE NewChangelog(0, NULL, <<>>, <<>>)
     IN  /\ \E t \in NewDate :
              /\ now' = t
              /\ changelogs' = Put(changelogs, r.target,
                                   PublishedChangelog(old, r.text, t))
         /\ req' = [req EXCEPT ![p] =
              [@ EXCEPT !.pc = "touch", !.proj = old.project_id]]
  /\ UNCHANGED <<projects, nextId, started, global_mongoose, promises>>

\* Changelog.findOneAndUpdate({id}, {summary_final, published_at, status}).
PublishUpdate(p) ==
  /\ req[p].kind = "publish" /\ req[p].pc = "update"
  /\ LET r == req[p] IN
       IF r.target \notin DOMAIN changelogs
         THEN /\ Respond(p, r, 500)
              /\ UNCHANGED <<changelogs, now>>
         ELSE /\ \E t \in NewDate :
                   /\ now' = t
                   /\ changelogs' = [changelogs EXCEPT ![r.target] =
                        PublishedChangelog(@, r.text, t)]
              /\ req' = [req EXCEPT ![p] =
                   [@ EXCEPT !.pc = "touch", !.proj = changelogs[r.target].project_id]]
  /\ UNCHANGED <<projects, nextId, started, global_mongoose, promises>>

\* Project.findOneAndUpdate({id: project_id}, {updated_at}), then 200.
PublishTouchProject(p) ==
  /\ req[p].kind = "publish" /\ req[p].pc = "touch"
  /\ LET r == req[p] IN
       /\ IF r.proj \in DOMAIN projects
            THEN \E t \in NewDate :
                   /\ now' = t
                   /\ projects' = [projects EXCEPT ![r.proj].updated_at = t]
            ELSE UNCHANGED <<projects, now>>
       /\ Respond(p, r, 200)
  /\ UNCHANGED <<changelogs, nextId, started, global_mongoose, promises>>

\* ------------------------------------------------- delete-changelog DELETE
\* requireAuthAndChangelogOwnership.
DeleteChangelogBegin(p) ==
  /\ Free(p)
  /\ \E s \in Sessions, c \in TargetInputs(changelogs) :
       LET r == [IdleReq EXCEPT !.kind = "deleteChangelog", !.session = s,
                                !.target = c, !.bodyOk = DeleteBodyValid(c)]
       IN  IF ~r.bodyOk THEN Reject(p, r, 400)
           ELSE IF ~IsAuthenticated(s)
             THEN Reject(p, r, DeleteErrorStatus(MsgAuthRequired))
           ELSE IF c \notin DOMAIN changelogs
             THEN Reject(p, r, DeleteErrorStatus(MsgChangelogNotFound))
           ELSE IF ~IsChangelogOwner(changelogs[c], s)
             THEN Reject(p, r, DeleteErrorStatus(MsgChangelogOwnership))
           ELSE req' = [req EXCEPT ![p] = [r EXCEPT !.pc = "delete"]]
  /\ started' = started + 1
  /\ UNCHANGED <<projects, changelogs, now, nextId, global_mongoose, promises>>

\* Changelog.deleteOne({id}).
DeleteChangelogDo(p) ==
  /\ req[p].kind = "deleteChangelog" /\ req[p].pc = "delete"
  /\ LET r == req[p] IN
       IF r.target \notin DOMAIN changelogs
         THEN /\ Respond(p, r, 404)
              /\ UNCHANGED changelogs
         ELSE /\ changelogs' = Remove(changelogs, r.target)
              /\ Respond(p, r, 200)
  /\ UNCHANGED <<projects, now, nextId, started, global_mongoose, promises>>

\* --------------------------------------------------- delete-project DELETE
\* requireAuthAndProjectOwnership.
DeleteProjectBegin(p) ==
  /\ Free(p)
  /\ \E s \in Sessions, c \in TargetInputs(projects) :
       LET r == [IdleReq EXCEPT !.kind = "deleteProject", !.session = s,
                                !.target = c, !.bodyOk = DeleteBodyValid(c)]
       IN  IF ~r.bodyOk THEN Reject(p, r, 400)
           ELSE IF ~IsAuthenticated(s)
             THEN Reject(p, r, DeleteErrorStatus(MsgAuthRequired))
           ELSE IF c \notin DOMAIN projects
             THEN Reject(p, r, DeleteErrorStatus(MsgProjectNotFound))
           ELSE IF ~IsProjectOwner(projects[c], s)
             THEN Reject(p, r, DeleteErrorStatus(MsgProjectOwnership))
           ELSE req' = [req EXCEPT ![p] = [r EXCEPT !.pc = "delcls"]]
  /\ started' = started + 1
  /\ UNCHANGED <<projects, changelogs, now, nextId, global_mongoose, promises>>

\* No other invocation is between its first and its last step.
Alone(p) == \A q \in Procs \ {p} : req[q].pc \in {"idle", "done"}

\* Mutation: the project's changelogs are left in place.
DeleteProjectChangelogs_Skip(p) ==
  /\ req[p].kind = "deleteProject" /\ req[p].pc = "delcls"
  /\ req' = [req EXCEPT ![p].pc = "delproj",
                        ![p].seq = IF Alone(p) THEN started ELSE 0]
  /\ UNCHANGED <<projects, changelogs, now, nextId, started,
               global_mongoose, promises>>

\* Changelog.deleteMany({project_id}).  seq keeps the number of requests
\* accepted so far when the step ran with no other request in progress.
DeleteProjectChangelogs(p) ==
  /\ req[p].kind = "deleteProject" /\ req[p].pc = "delcls"
  /\ changelogs' = [c \in {x \in DOMAIN changelogs :
                             changelogs[x].project_id # req[p].target}
                      |-> changelogs[c]]
  /\ req' = [req EXCEPT ![p].pc = "delproj",
                        ![p].seq = IF Alone(p) THEN started ELSE 0]
  /\ UNCHANGED <<projects, now, nextId, started, global_mongoose, promises>>

\* Project.deleteOne({id}).
DeleteProjectDo(p) ==
  /\ req[p].kind = "deleteProject" /\ req[p].pc = "delproj"
  /\ LET r == req[p] IN
       IF r.target \notin DOMAIN projects
         THEN /\ Respond(p, r, 404)
              /\ UNCHANGED projects
         ELSE /\ projects' = Remove(projects, r.target)
              /\ Respond(p, r, 200)
  /\ UNCHANGED <<changelogs, now, nextId, started, global_mongoose, promises>>

\* --------------------------------------- project changelogs GET (public)
\* The route reads no session: an anonymous and a signed-in caller.
ListSessions == {NoSession, "u2"}

\* The search query parameter: absent, or a term.
SearchInputs == { <<>>, <<"added x">>, <<"Fixed Y">> }

\* Mutation: the status is left out of the query.
ListMatches_AnyStatus(projectId, term) ==
  { c \in DOMAIN changelogs :
      /\ changelogs[c].project_id = projectId
      /\ term # <<>> =>
           Includes(ToLowerCase(changelogs[c].summary_final), ToLowerCase(term)) }

\* The query document: project_id, status 'published' and, when a term is
\* given, a case-insensitive match on summary_final.
ListMatches(projectId, term) ==
  { c \in DOMAIN changelogs :
      /\ changelogs[c].project_id = projectId
      /\ changelogs[c].status = "published"
      /\ term # <<>> =>
           Includes(ToLowerCase(changelogs[c].summary_final), ToLowerCase(term)) }

\* .sort({published_at: -1}): the orders the store may return; documents with
\* equal published_at come in either order.
SortedByPublishedAt(S) ==
  { sq \in [1..Cardinality(S) -> S] :
      /\ \A i, j \in 1..Cardinality(S) : i # j => sq[i] # sq[j]
      /\ \A i, j \in 1..Cardinality(S) :
           i < j => changelogs[sq[i]].published_at >= changelogs[sq[j]].published_at }

\* The whole handler: projectId validation, Changelog.find, the response.
ListChangelogs(p) ==
  /\ Free(p)
  /\ \E s \in ListSessions, t \in TargetInputs(projects), q \in SearchInputs :
       LET r == [IdleReq EXCEPT !.kind = "list", !.session = s, !.target = t,
                                !.text = q, !.bodyOk = IsUuid(t), !.pc = "done"]
       IN  IF ~r.bodyOk
             THEN req' = [req EXCEPT ![p] = [r EXCEPT !.status = 400]]
             ELSE \E sq \in SortedByPublishedAt(ListMatches(t, q)) :
                    req' = [req EXCEPT ![p] =
                             [r EXCEPT !.status = 200, !.result = sq]]
  /\ started' = started + 1
  /\ UNCHANGED <<projects, changelogs, now, nextId, global_mongoose, promises>>

Next ==
  \/ \E p \in Procs : GenerateBegin(p)
  \/ \E p \in Procs : GenerateSaveExisting(p)
  \/ \E p \in Procs : GenerateInsert(p)
  \/ \E p \in Procs : GenerateFetch(p)
  \/ \E p \in Procs : GenerateLlmRespond(p)
  \/ \E p \in Procs : GenerateLlmTimeout(p)
  \/ \E p \in Procs : LlmLateResponse(p)
  \/ \E p \in Procs : GenerateSaveChangelog(p)
  \/ \E p \in Procs : GenerateUpdateTimestamp(p)
  \/ \E p \in Procs : PublishBegin(p)
  \/ \E p \in Procs : PublishUpdate(p)
  \/ \E p \in Procs : PublishTouchProject(p)
  \/ \E p \in Procs : DeleteChangelogBegin(p)
  \/ \E p \in Procs : DeleteChangelogDo(p)
  \/ \E p \in Procs : DeleteProjectBegin(p)
  \/ \E p \in Procs : DeleteProjectChangelogs(p)
  \/ \E p \in Procs : DeleteProjectDo(p)
  \/ \E p \in Procs : ListChangelogs(p)

Spec == Init /\ [][Next]_vars

\* The same handlers over a store that already holds a published changelog:
\* project 1 with the drafts 2 and 4 and with changelog 3, published at
\* time 0.
ListInit ==
  /\ projects = SeedProjects
  /\ changelogs = SeedChangelogs @@
       (3 :> [ project_id |-> 1, created_by |-> "u1",
               summary_ai |-> <<"Features">>, summary_final |-> <<"Fixed Y">>,
               commit_hashes |-> <<1>>, published_at |-> 0,
               status |-> "published" ]) @@
       (4 :> SeedChangelogs[2])
  /\ nextId = 5
  /\ req = [p \in Procs |-> IdleReq]
  /\ now = 0
  /\ started = 0
  /\ global_mongoose = Connected /\ promises = <<"resolved">>

ListSpec == ListInit /\ [][Next]_vars

\* The same handlers over a store from before owners were recorded: project
\* 1 has no owner_id and its draft changelog 2 has no created_by.
LegacyInit ==
  /\ projects = [i \in DOMAIN SeedProjects |->
                   [SeedProjects[i] EXCEPT !.owner_id = NULL]]
  /\ changelogs = [i \in DOMAIN SeedChangelogs |->
                     [SeedChangelogs[i] EXCEPT !.created_by = NULL]]
  /\ nextId = 3
  /\ req = [p \in Procs |-> IdleReq]
  /\ now = 0
  /\ started = 0
  /\ global_mongoose = Connected /\ promises = <<"resolved">>

LegacySpec == LegacyInit /\ [][Next]_vars

\* ------------------------------------- gitService.fetchRecentCommitsByCount
\* The adapter called on its own: any count, a URL as the route passes it, a
\* remote repository of some size, GITHUB_PAT set or not (the two branches
\* after the count check).
AdapterCountInputs == {-1, 0, 1, 100, 101, 1000, 1001}
AdapterUrlInputs == {NormalizeRepoUrl(u) : u \in {v \in RepoUrlInputs : IsGithubUrl(v)}}
RemoteSizes == {0, 1, 100, 150, 1200}

MsgInvalidCount == <<"Commit", "count", "must", "be", "between", "1", "and", "1000">>
MsgNoPat == <<"GITHUB_PAT", "environment", "variable", "is", "required">>

\* The catch of fetchRecentCommitsByCount: the message with its context.
AdapterErrorMessage(u, inner) ==
  <<"Failed", "to", "fetch", "recent", "commits", "from">> \o UrlText(u)
    \o <<":">> \o inner

\* Mutation: the adapter takes any count.
FetchCountValid_Any(n) == TRUE

\* if (commitCount <= 0 || commitCount > 1000) throw
FetchCountValid(n) == ~(n <= 0 \/ n > MaxAdapterCount)

Max(a, b) == IF a >= b THEN a ELSE b

\* Count check, parseRepoUrl, then the GITHUB_PAT check of
\* _fetchGitHubRecentCommits; no request has been sent yet.
FetchBegin(p) ==
  /\ Free(p)
  /\ \E u \in AdapterUrlInputs, n \in AdapterCountInputs :
       LET r == [IdleReq EXCEPT !.kind = "fetch", !.repo_url = u,
                                !.commit_count = n]
       IN  IF ~FetchCountValid(n)
             THEN req' = [req EXCEPT ![p] =
                    [r EXCEPT !.pc = "done",
                              !.text = AdapterErrorMessage(u, MsgInvalidCount)]]
           ELSE \/ req' = [req EXCEPT ![p] =
                     [r EXCEPT !.pc = "done",
                               !.text = AdapterErrorMessage(u, MsgNoPat)]]
                \/ \E size \in RemoteSizes :
                     req' = [req EXCEPT ![p] =
                       [r EXCEPT !.pc = "page", !.remote = size]]
  /\ started' = started + 1
  /\ UNCHANGED <<projects, changelogs, now, nextId, global_mongoose, promises>>

\* The answer of GET /repos/:owner/:repo/commits?page&per_page for a
\* repository of `remote` commits: page number `page` (from 1) of the log,
\* most recent first.
PageCommits(remote, page, perPage) ==
  SubSeq(RemoteLog(remote), (page - 1) * perPage + 1,
         Min(remote, page * perPage))

\* pageCommits.forEach(commit => { if (commits.length < commitCount) push }):
\* the commits of the page are appended in their order while room is left.
PushCommits(commits, pageCommits, count) ==
  commits \o SubSeq(pageCommits, 1,
                    Min(Len(pageCommits), Max(0, count - Len(commits))))

\* Mutation: the loop ends after its first page.
FetchLoopDone_OnePage(pageCommits, commits, count) == TRUE

\* The loop ends on an empty page (break) or when the while condition
\* commits.length < commitCount fails.
FetchLoopDone(pageCommits, commits, count) ==
  Len(pageCommits) = 0 \/ ~(Len(commits) < count)

\* return commits.slice(0, commitCount)
FetchResult(commits, count) == SubSeq(commits, 1, Min(count, Len(commits)))

\* One turn of the page loop: GET /repos/:owner/:repo/commits?page&per_page.
\* req.page counts the requests sent, so this turn asks for page + 1.
FetchPage(p) ==
  /\ req[p].kind = "fetch" /\ req[p].pc = "page"
  /\ LET r == req[p]
         perPage == Min(r.commit_count, GitHubPerPage)
         pageCommits == PageCommits(r.remote, r.page + 1, perPage)
         commits == PushCommits(r.commits, pageCommits, r.commit_count)
         over == FetchLoopDone(pageCommits, commits, r.commit_count)
     IN  \/ \E f \in FetchFailures :
              req' = [req EXCEPT ![p] =
                [r EXCEPT !.pc = "done", !.page = @ + 1, !.fetched = 0,
                          !.remote = 0, !.commits = <<>>,
                          !.text = FetchErrorMessage(r.repo_url, f)]]
         \/ req' = [req EXCEPT ![p] =
              [r EXCEPT !.page = @ + 1,
                        !.commits = IF over
                                      THEN FetchResult(commits, r.commit_count)
                                      ELSE commits,
                        !.fetched = Len(commits),
                        !.pc = IF over THEN "done" ELSE "page",
                        !.remote = IF over THEN 0 ELSE @]]
  /\ UNCHANGED <<projects, changelogs, now, nextId, started,
               global_mongoose, promises>>

FetchInit ==
  /\ projects = <<>> /\ changelogs = <<>> /\ nextId = 1
  /\ req = [p \in Procs |-> IdleReq]
  /\ now = 0
  /\ started = 0
  /\ global_mongoose = Connected /\ promises = <<"resolved">>

FetchNext ==
  \/ \E p \in Procs : FetchBegin(p)
  \/ \E p \in Procs : FetchPage(p)

FetchSpec == FetchInit /\ [][FetchNext]_vars

\* ------------------------------------------------ lib/mongodb connectToDatabase
\* connectToDatabase called from several requests of one process, starting
\* with an empty cache; MONGODB_CONNECTION_STRING is set. A promise is
\* "pending" while mongoose.connect is in flight, then "resolved" or
\* "rejected". disconnectFromDatabase runs only from the SIGINT handler,
\* before process.exit, and takes no part in these runs.
MaxCalls == MaxRequests + 1
NoPromise == 0
MsgConnectFailed == <<"MongoDB", "connection", "failed">>

ConnectFree(p) ==
  /\ started < MaxCalls
  /\ IF \E q \in Procs : req[q].pc = "idle"
       THEN req[p].pc = "idle" /\ \A q \in 1..(p - 1) : req[q].pc # "idle"
       ELSE req[p].pc = "done" /\ \A q \in 1..(p - 1) : req[q].pc # "done"

\* if (global.mongoose.promise)
PromiseInProgress(cache) == cache.promise # NoPromise

\* The call up to its first await: the cached connection, else the promise
\* in progress, else a new mongoose.connect.
ConnectBegin(p) ==
  /\ ConnectFree(p)
  /\ LET r == [IdleReq EXCEPT !.kind = "connect"] IN
       IF global_mongoose.conn # NULL
         THEN /\ req' = [req EXCEPT ![p] =
                   [r EXCEPT !.pc = "done", !.result = <<global_mongoose.conn>>]]
              /\ UNCHANGED <<global_mongoose, promises>>
       ELSE IF PromiseInProgress(global_mongoose)
         THEN /\ req' = [req EXCEPT ![p] =
                   [r EXCEPT !.pc = "await39", !.target = global_mongoose.promise]]
              /\ UNCHANGED <<global_mongoose, promises>>
       ELSE /\ promises' = Append(promises, "pending")
            /\ global_mongoose' =
                 [global_mongoose EXCEPT !.promise = Len(promises) + 1]
            /\ req' = [req EXCEPT ![p] =
                 [r EXCEPT !.pc = "await68", !.target = Len(promises) + 1]]
  /\ started' = started + 1
  /\ UNCHANGED <<projects, changelogs, now, nextId>>

\* mongoose.connect settles: .then returns mongoose.connection, or .catch
\* resets global.mongoose.promise and rethrows.
ConnectSettle(k) ==
  /\ k \in DOMAIN promises /\ promises[k] = "pending"
  /\ \/ /\ promises' = [promises EXCEPT ![k] = "resolved"]
        /\ UNCHANGED global_mongoose
     \/ /\ promises' = [promises EXCEPT ![k] = "rejected"]
        /\ global_mongoose' = [global_mongoose EXCEPT !.promise = NoPromise]
  /\ UNCHANGED <<projects, changelogs, req, now, nextId, started>>

\* The caller continues after its await: line 39 (a promise it found) or
\* lines 67-73 (the promise it created, with the reset in its catch).
ConnectResume(p) ==
  /\ req[p].kind = "connect" /\ req[p].pc \in {"await39", "await68"}
  /\ promises[req[p].target] # "pending"
  /\ IF promises[req[p].target] = "resolved"
       THEN /\ global_mongoose' = [global_mongoose EXCEPT !.conn = Connection]
            /\ req' = [req EXCEPT ![p] =
                 [@ EXCEPT !.pc = "done", !.result = <<Connection>>]]
       ELSE /\ global_mongoose' =
                 IF req[p].pc = "await68"
                   THEN [global_mongoose EXCEPT !.promise = NoPromise]
                   ELSE global_mongoose
            /\ req' = [req EXCEPT ![p] =
                 [@ EXCEPT !.pc = "done", !.text = MsgConnectFailed]]
  /\ UNCHANGED <<projects, changelogs, now, nextId, started, promises>>

ConnectInit ==
  /\ projects = <<>> /\ changelogs = <<>> /\ nextId = 1
  /\ req = [p \in Procs |-> IdleReq]
  /\ now = 0
  /\ started = 0
  /\ global_mongoose = [conn |-> NULL, promise |-> NoPromise]
  /\ promises = <<>>

ConnectNext ==
  \/ \E p \in Procs : ConnectBegin(p)
  \/ \E k \in DOMAIN promises : ConnectSettle(k)
  \/ \E p \in Procs : ConnectResume(p)

ConnectSpec == ConnectInit /\ [][ConnectNext]_vars

\* ------------------------------------------- auth-middleware getAuthContext
\* requireAuth called on its own. What getServerSession can yield: no
\* session, a session without user.githubId, a session of u1 without
\* accessToken, the complete sessions of u1 and u2, and a complete session
\* of a GitHub account that has no User record.
AuthSessionInputs ==
  {NoSession, "nogithubid", "u1_notoken", "u1", "u2", "stranger"}

\* session?.user?.githubId and session.accessToken; NULL when absent.
SessionGithubId(s) ==
  IF s \in {NoSession, "nogithubid"} THEN NULL
  ELSE IF s = "u1_notoken" THEN "u1"
  ELSE s
SessionAccessToken(s) ==
  IF s \in {NoSession, "u1_notoken"} THEN NULL ELSE "token"

\* Mutation: the accessToken of the session is not looked at.
SessionComplete_GithubIdOnly(s) == SessionGithubId(s) # NULL

\* The negation of: !session?.user?.githubId || !session.accessToken
SessionComplete(s) ==
  ~(SessionGithubId(s) = NULL \/ SessionAccessToken(s) = NULL)

\* User.findOne({ github_id }): the user's id, NULL when there is none.
FindUser(githubId) == IF githubId \in Users THEN githubId ELSE NULL

\* The catch block of getAuthContext, then requireAuth's throw.
AuthThrows(p, r, step) ==
  req' = [req EXCEPT ![p] =
    [r EXCEPT !.pc = "done", !.failure = <<"auth", step>>,
              !.text = MsgAuthRequired]]

\* return { user: null, isAuthenticated: false }, then requireAuth's throw.
AuthDenied(p, r) ==
  req' = [req EXCEPT ![p] = [r EXCEPT !.pc = "done", !.text = MsgAuthRequired]]

\* After the session lookups: the field check, then connectToDatabase.
AuthCheckSession(p, r) ==
  IF ~SessionComplete(r.session) THEN AuthDenied(p, r)
  ELSE req' = [req EXCEPT ![p] = [r EXCEPT !.pc = "connect"]]

\* requireAuth -> getAuthContext, up to await getServerSession(authOptions).
AuthBegin(p) ==
  /\ Free(p)
  /\ req' = [req EXCEPT ![p] = [IdleReq EXCEPT !.kind = "auth", !.pc = "session1"]]
  /\ started' = started + 1
  /\ UNCHANGED <<projects, changelogs, now, nextId, global_mongoose, promises>>

\* The first getServerSession settles; without a session and with a cookie
\* header the second lookup is started.
AuthSession1(p) ==
  /\ req[p].kind = "auth" /\ req[p].pc = "session1"
  /\ \/ AuthThrows(p, req[p], "session1")
     \/ \E s \in AuthSessionInputs, cookie \in BOOLEAN :
          LET r == [req[p] EXCEPT !.session = s] IN
            IF s = NoSession /\ cookie
              THEN req' = [req EXCEPT ![p] = [r EXCEPT !.pc = "session2"]]
              ELSE AuthCheckSession(p, r)
  /\ UNCHANGED <<projects, changelogs, now, nextId, started,
                 global_mongoose, promises>>

\* getServerSession({req: mockRequest, res: mockResponse, ...authOptions})
AuthSession2(p) ==
  /\ req[p].kind = "auth" /\ req[p].pc = "session2"
  /\ \/ AuthThrows(p, req[p], "session2")
     \/ \E s \in AuthSessionInputs :
          AuthCheckSession(p, [req[p] EXCEPT !.session = s])
  /\ UNCHANGED <<projects, changelogs, now, nextId, started,
                 global_mongoose, promises>>

\* await connectToDatabase()
AuthConnect(p) ==
  /\ req[p].kind = "auth" /\ req[p].pc = "connect"
  /\ \/ AuthThrows(p, req[p], "connect")
     \/ req' = [req EXCEPT ![p].pc = "user"]
  /\ UNCHANGED <<projects, changelogs, now, nextId, started,
                 global_mongoose, promises>>

\* await User.findOne({ github_id }), the return, and requireAuth.
AuthFindUser(p) ==
  /\ req[p].kind = "auth" /\ req[p].pc = "user"
  /\ LET r == req[p]
         user == FindUser(SessionGithubId(r.session))
     IN  \/ AuthThrows(p, r, "user")
         \/ IF user = NULL THEN AuthDenied(p, r)
            ELSE req' = [req EXCEPT ![p] =
                   [r EXCEPT !.pc = "done", !.result = <<user>>]]
  /\ UNCHANGED <<projects, changelogs, now, nextId, started,
                 global_mongoose, promises>>

AuthInit ==
  /\ projects = <<>> /\ changelogs = <<>> /\ nextId = 1
  /\ req = [p \in Procs |-> IdleReq]
  /\ now = 0
  /\ started = 0
  /\ global_mongoose = Connected /\ promises = <<"resolved">>

AuthNext ==
  \/ \E p \in Procs : AuthBegin(p)
  \/ \E p \in Procs : AuthSession1(p)
  \/ \E p \in Procs : AuthSession2(p)
  \/ \E p \in Procs : AuthConnect(p)
  \/ \E p \in Procs : AuthFindUser(p)

AuthSpec == AuthInit /\ [][AuthNext]_vars

\* ------------------------------------------------------------ step helpers
\* Slot p takes a new request of kind k in this step.
Begins(p, k) ==
  /\ req[p].pc \in {"idle", "done"}
  /\ started' = started + 1
  /\ req'[p] # req[p]
  /\ req'[p].kind = k

\* The request in slot p takes one of its later steps.
Steps(p, k, at) ==
  /\ req[p].kind = k /\ req[p].pc = at
  /\ req'[p] # req[p]

\* Two URL spellings of one repository: equal up to one trailing slash.
SameRepo(u, v) == u = v \/ u = v \o <<"/">> \/ v = u \o <<"/">>

\* -------------------------------------------------------------------- C1
\* C1: in every reachable state no two Project records have the same
\* repository URL, also when the two spellings differ by a trailing slash.
C1_UniqueRepoUrl ==
  \A i, j \in DOMAIN projects :
    i # j => ~SameRepo(projects[i].repo_url, projects[j].repo_url)

C1_Witness ==
  /\ Cardinality(DOMAIN projects) >= 2
  /\ \E p \in Procs : req[p].kind = "generate" /\ req[p].pc = "fetch"

\* -------------------------------------------------------------------- C2
\* C2: a generate request that reaches its insert after another request has
\* inserted a project for the same URL ends with 409, inserts no project and
\* no changelog; the insert that finds no such project succeeds.
C2_RaceLoserConflicts ==
  [][\A p \in Procs :
       Steps(p, "generate", "insert") =>
         IF \E i \in DOMAIN projects :
              projects[i].repo_url = NormalizeRepoUrl(req[p].repo_url)
           THEN /\ req'[p].pc = "done" /\ req'[p].status = 409
                /\ req'[p].cid = 0
                /\ projects' = projects /\ changelogs' = changelogs
           ELSE /\ Cardinality(DOMAIN projects') = Cardinality(DOMAIN projects) + 1
                /\ req'[p].pc = "fetch"]_vars

C2_Witness ==
  \E p \in Procs :
    /\ req[p].kind = "generate" /\ req[p].pc = "done" /\ req[p].status = 409
    /\ projects # <<>>

\* -------------------------------------------------------------------- C3
\* C3: a generate request for a URL that already has a project takes the
\* existing project, no later step of it adds or removes a project, its
\* changelog insert adds exactly one draft under that project, and it ends
\* with 201 while the project is still there.
C3_ExistingProjectReused ==
  [][\A p \in Procs :
       /\ ( /\ Begins(p, "generate") /\ req'[p].pc # "done"
            /\ \E i \in DOMAIN projects :
                 SameRepo(projects[i].repo_url, req'[p].repo_url) )
          => /\ req'[p].pc = "save"
             /\ req'[p].proj \in DOMAIN projects
             /\ SameRepo(projects[req'[p].proj].repo_url, req'[p].repo_url)
       /\ \A at \in {"save", "fetch", "llm", "savecl", "touch"} :
            Steps(p, "generate", at) =>
              /\ DOMAIN projects' = DOMAIN projects
              /\ req'[p].pc # "done" => req'[p].proj = req[p].proj
       /\ Steps(p, "generate", "savecl") =>
            \E c \in Ids \ DOMAIN changelogs :
              /\ DOMAIN changelogs' = DOMAIN changelogs \cup {c}
              /\ changelogs'[c].status = "draft"
              /\ changelogs'[c].project_id = req[p].proj
              /\ \A x \in DOMAIN changelogs : changelogs'[x] = changelogs[x]
       /\ (Steps(p, "generate", "touch") /\ req[p].proj \in DOMAIN projects)
            => req'[p].status = 201]_vars

C3_Witness ==
  \E p \in Procs :
    /\ req[p].kind = "generate" /\ req[p].pc = "touch"
    /\ req[p].proj \in DOMAIN projects
    /\ req[p].cid \in DOMAIN changelogs
    /\ changelogs[req[p].cid].project_id = req[p].proj
    /\ \E c \in DOMAIN changelogs :
         c # req[p].cid /\ changelogs[c].project_id = req[p].proj

\* -------------------------------------------------------------------- C4
\* C4: the project a generate request holds is the only project whose URL
\* equals the submitted URL up to a trailing slash, so requests that submit
\* u and u/ hold the same project.
C4_TrailingSlashSameProject ==
  \A p \in Procs :
    ( /\ req[p].kind = "generate" /\ req[p].pc \in {"save", "fetch"}
      /\ req[p].proj \in DOMAIN projects )
    => /\ \A i \in DOMAIN projects :
            SameRepo(projects[i].repo_url, req[p].repo_url) => i = req[p].proj
       /\ \A q \in Procs :
            ( /\ req[q].kind = "generate" /\ req[q].pc \in {"save", "fetch"}
              /\ req[q].proj \in DOMAIN projects
              /\ SameRepo(req[p].repo_url, req[q].repo_url) )
            => req[q].proj = req[p].proj

C4_Witness ==
  \E p, q \in Procs :
    /\ req[p].kind = "generate" /\ req[p].pc \in {"save", "fetch"}
    /\ req[q].kind = "generate" /\ req[q].pc \in {"save", "fetch"}
    /\ req[q].repo_url = req[p].repo_url \o <<"/">>
    /\ req[p].proj \in DOMAIN projects
    /\ req[q].proj = req[p].proj

\* -------------------------------------------------------------------- C5
\* C5: every changelog is published iff published_at is set iff
\* summary_final is set.
C5_PublishedFieldsAgree ==
  \A c \in DOMAIN changelogs :
    /\ (changelogs[c].status = "published") <=> (changelogs[c].published_at # NoTime)
    /\ (changelogs[c].published_at # NoTime) <=> (changelogs[c].summary_final # NoText)

C5_Witness ==
  /\ \E c \in DOMAIN changelogs : changelogs[c].status = "published"
  /\ \E c \in DOMAIN changelogs : changelogs[c].status = "draft"

\* -------------------------------------------------------------------- C6
\* C6: a well-formed publish request finds its target missing and ends with
\* 404, or finds it published and ends with 409 leaving every changelog as
\* it was, or finds it a draft and goes on to publish it and end with 200.
C6_PublishTwice ==
  [][\A p \in Procs :
       /\ (Begins(p, "publish") /\ req'[p].bodyOk) =>
            LET c == req'[p].target IN
              IF c \notin DOMAIN changelogs
                THEN req'[p].pc = "done" /\ req'[p].status = 404
              ELSE IF changelogs[c].status = "published"
                THEN /\ req'[p].pc = "done" /\ req'[p].status = 409
                     /\ changelogs' = changelogs
              ELSE req'[p].pc = "update"
       /\ (Steps(p, "publish", "update") /\ req[p].target \in DOMAIN changelogs) =>
            /\ changelogs'[req[p].target].status = "published"
            /\ req'[p].pc = "touch"
       /\ Steps(p, "publish", "touch") =>
            req'[p].pc = "done" /\ req'[p].status = 200]_vars

C6_Witness ==
  \E p, q \in Procs :
    /\ req[p].kind = "publish" /\ req[p].pc = "done" /\ req[p].status = 200
    /\ req[q].kind = "publish" /\ req[q].pc = "done" /\ req[q].status = 409
    /\ req[q].target \in DOMAIN changelogs
    /\ changelogs[req[q].target].status = "published"

\* -------------------------------------------------------------------- C7
\* C7: a publish request changes a changelog only if its caller is
\* authenticated and is the changelog's creator.
C7_PublishOnlyByCreator ==
  [][\A p \in Procs :
       (Steps(p, "publish", "update") /\ changelogs' # changelogs) =>
         /\ req[p].session \in Users
         /\ changelogs[req[p].target].created_by = req[p].session]_vars

GatedKinds == {"generate", "deleteChangelog", "deleteProject"}

\* C9 as stated: every generate, deleteChangelog or deleteProject request
\* made without a session ends with 401 and changes no project or changelog.
C9_NoSessionAlways401 ==
  [][\A p \in Procs : \A k \in GatedKinds :
       (Begins(p, k) /\ req'[p].session = NoSession) =>
         /\ req'[p].pc = "done" /\ req'[p].status = 401
         /\ projects' = projects /\ changelogs' = changelogs]_vars

\* C9 amended: such a request ends at once and changes no project or
\* changelog; it ends with 401 when its body passes the route's schema and
\* with 400 when it does not.
C9_NoSessionRejected ==
  [][\A p \in Procs : \A k \in GatedKinds :
       (Begins(p, k) /\ req'[p].session = NoSession) =>
         /\ req'[p].pc = "done"
         /\ req'[p].status = IF req'[p].bodyOk THEN 401 ELSE 400
         /\ projects' = projects /\ changelogs' = changelogs]_vars

C9_Witness ==
  \E p, q \in Procs :
    /\ req[p].kind = "generate" /\ req[p].pc = "done"
    /\ req[p].session = NoSession /\ req[p].bodyOk /\ req[p].status = 401
    /\ req[q].kind \in {"deleteChangelog", "deleteProject"} /\ req[q].pc = "done"
    /\ req[q].session = NoSession /\ req[q].bodyOk /\ req[q].status = 401

\* ------------------------------------------------------------------- C10
\* C10: when the timer fires on a pending model call the request ends with
\* 408 and no changelog is inserted; the request stays finished, and the
\* late model response changes no collection.
C10_TimeoutNoChangelog ==
  [][\A p \in Procs :
       /\ (Steps(p, "generate", "llm") /\ req'[p].llm = "timedout") =>
            /\ req'[p].pc = "done" /\ req'[p].status = 408
            /\ changelogs' = changelogs
       /\ (req[p].llm \in {"timedout", "late"} /\ req'[p].llm \in {"timedout", "late"}) =>
            /\ req'[p].pc = "done" /\ req'[p].cid = 0
            /\ req'[p] # req[p] => (changelogs' = changelogs /\ projects' = projects)]_vars

C10_Witness ==
  \E p \in Procs :
    /\ req[p].kind = "generate" /\ req[p].llm = "late" /\ req[p].status = 408
    /\ \A c \in DOMAIN changelogs : c = 2

\* ------------------------------------------------------------------- C11
\* C11: a generate request that ends at its commit fetch (failure or no
\* commits) or at its model call (any failure) ends with an error status and
\* has inserted no changelog; a changelog is inserted only by the save step
\* of a request that holds at least one commit and a non-empty summary.
C11_FailedGenerateNoChangelog ==
  [][/\ \A p \in Procs : \A at \in {"fetch", "llm"} :
          (Steps(p, "generate", at) /\ req'[p].pc = "done") =>
            /\ changelogs' = changelogs
            /\ req'[p].cid = 0
            /\ req'[p].status \notin {200, 201}
     /\ \A c \in DOMAIN changelogs' \ DOMAIN changelogs :
          /\ Len(changelogs'[c].commit_hashes) >= 1
          /\ Trim(changelogs'[c].summary_ai) # <<>>
          /\ \E p \in Procs :
               /\ Steps(p, "generate", "savecl")
               /\ Len(req[p].commits) >= 1 /\ req[p].llm = "responded"]_vars

C11_Witness ==
  \E p, q \in Procs :
    /\ req[p].kind = "generate" /\ req[p].pc = "done" /\ req[p].status = 429
    /\ req[p].llm = "responded"
    /\ req[q].kind = "generate" /\ req[q].pc = "done" /\ req[q].status = 400
    /\ req[q].bodyOk /\ req[q].llm = "none"
    /\ changelogs = SeedChangelogs

\* ------------------------------------------------------------------- C12
\* C12: when a generate request that inserted the project for a new URL
\* ends at its commit fetch or at its model call, that project is not in
\* the collection afterwards.
C12_FailedGenerateNoProject ==
  [][\A p \in Procs : \A at \in {"fetch", "llm"} :
       (Steps(p, "generate", at) /\ req'[p].pc = "done" /\ req[p].isNew) =>
         req[p].proj \notin DOMAIN projects']_vars

\* ------------------------------------------------------------------- C13
\* C13: a generate request whose commit_count is outside [1,100] ends at
\* once with 400, whoever sends it: it holds no project, has fetched
\* nothing, has made no model call, and no collection has changed.
C13_CountOutOfRangeRejected ==
  [][\A p \in Procs :
       ( /\ Begins(p, "generate")
         /\ req'[p].commit_count \notin MinCommitCount..MaxCommitCount )
       => /\ req'[p].pc = "done" /\ req'[p].status = 400
          /\ req'[p].proj = 0 /\ req'[p].commits = <<>> /\ req'[p].llm = "none"
          /\ projects' = projects /\ changelogs' = changelogs
          /\ nextId' = nextId]_vars

C13_Witness ==
  \E p, q \in Procs :
    /\ req[p].kind = "generate" /\ req[p].pc = "done" /\ req[p].status = 400
    /\ req[p].commit_count = 0 /\ req[p].session \in Users
    /\ req[q].kind = "generate" /\ req[q].pc = "done" /\ req[q].status = 400
    /\ req[q].commit_count = 101 /\ req[q].session \in Users

\* ------------------------------------------------------------------- C14
\* C14 as stated: for every count outside [1,100] the adapter ends at once
\* with the invalid-count error and has sent no request.
C14_AdapterRejectsOutside100 ==
  [][\A p \in Procs :
       ( /\ Begins(p, "fetch")
         /\ req'[p].commit_count \notin MinCommitCount..MaxCommitCount )
       => /\ req'[p].pc = "done" /\ req'[p].page = 0
          /\ Includes(req'[p].text, MsgInvalidCount)]_vars

\* C14 amended: for every count outside [1,1000] the adapter ends at once
\* with the invalid-count error and has sent no request; a count from 1 to
\* 1000 never gets the invalid-count error.
C14_AdapterRejectsOutside1000 ==
  [][\A p \in Procs :
       Begins(p, "fetch") =>
         IF req'[p].commit_count \notin 1..MaxAdapterCount
           THEN /\ req'[p].pc = "done" /\ req'[p].page = 0
                /\ Includes(req'[p].text, MsgInvalidCount)
           ELSE ~Includes(req'[p].text, MsgInvalidCount)]_vars

C14_Witness ==
  \E p, q \in Procs :
    /\ req[p].kind = "fetch" /\ req[p].pc = "done" /\ req[p].page = 0
    /\ req[p].commit_count = 1001 /\ Includes(req[p].text, MsgInvalidCount)
    /\ req[q].kind = "fetch" /\ req[q].pc = "done" /\ req[q].page >= 2
    /\ req[q].commit_count = 101 /\ req[q].fetched = 101

\* ------------------------------------------------------------------- C15
\* C15: the save step of a generate request that holds k >= 1 commits adds
\* exactly one changelog: a draft with no published_at and no summary_final
\* whose commit_hashes are the hashes of the k commits, most recent first;
\* no other step of the request adds or removes a changelog; its 201
\* response reports k; and the insert step for an unseen URL adds exactly
\* one project while no other generate step adds or removes one.
C15_SuccessfulGenerateCreatesDraft ==
  [][\A p \in Procs :
       /\ Steps(p, "generate", "savecl") =>
            LET k == Len(req[p].commits) IN
              /\ k >= 1
              /\ \E c \in Ids \ DOMAIN changelogs :
                   /\ DOMAIN changelogs' = DOMAIN changelogs \cup {c}
                   /\ req'[p].cid = c
                   /\ changelogs'[c].status = "draft"
                   /\ changelogs'[c].published_at = NoTime
                   /\ changelogs'[c].summary_final = NoText
                   /\ changelogs'[c].project_id = req[p].proj
                   /\ Len(changelogs'[c].commit_hashes) = k
                   /\ \A i \in 1..k :
                        changelogs'[c].commit_hashes[i] = req[p].commits[i].sha
                   /\ \A i, j \in 1..k :
                        i < j => changelogs'[c].commit_hashes[i]
                                   < changelogs'[c].commit_hashes[j]
                   /\ \A x \in DOMAIN changelogs : changelogs'[x] = changelogs[x]
              /\ req'[p].resp_count = k
       /\ \A at \in {"save", "insert", "fetch", "llm", "touch"} :
            Steps(p, "generate", at) => changelogs' = changelogs
       /\ (Steps(p, "generate", "touch") /\ req'[p].status = 201) =>
            req'[p].resp_count = req[p].resp_count /\ req[p].resp_count >= 1
       /\ (Steps(p, "generate", "insert") /\ req'[p].pc # "done") =>
            /\ req'[p].proj \notin DOMAIN projects
            /\ DOMAIN projects' = DOMAIN projects \cup {req'[p].proj}
            /\ \A x \in DOMAIN projects : projects'[x] = projects[x]
       /\ \A at \in {"save", "fetch", "llm", "savecl", "touch"} :
            Steps(p, "generate", at) => DOMAIN projects' = DOMAIN projects]_vars

C15_Witness ==
  \E p \in Procs :
    /\ req[p].kind = "generate" /\ req[p].pc = "done" /\ req[p].status = 201
    /\ req[p].resp_count = 2
    /\ \E c \in DOMAIN changelogs :
         /\ changelogs[c].commit_hashes = <<1, 2>>
         /\ changelogs[c].status = "draft"
         /\ changelogs[c].project_id \in DOMAIN projects
         /\ projects[changelogs[c].project_id].repo_url = <<"acme", "widgets">>

\* ------------------------------------------------------------------- C16
\* C16 as stated: the update step of a publish request on a draft makes it
\* published with summary_final equal to the submitted text and published_at
\* equal to the time of the step, and changes nothing else; the following
\* step changes only the owning project, whose updated_at does not go back.
C16_PublishStoresTextAsGiven ==
  [][\A p \in Procs :
       /\ ( /\ Steps(p, "publish", "update")
            /\ req[p].target \in DOMAIN changelogs
            /\ changelogs[req[p].target].status = "draft" )
          => LET t == req[p].target IN
               /\ DOMAIN changelogs' = DOMAIN changelogs
               /\ changelogs'[t].status = "published"
               /\ changelogs'[t].summary_final = req[p].text
               /\ changelogs'[t].published_at = now'
               /\ now' >= now
               /\ \A x \in DOMAIN changelogs \ {t} : changelogs'[x] = changelogs[x]
               /\ projects' = projects
       /\ Steps(p, "publish", "touch") =>
            /\ changelogs' = changelogs
            /\ DOMAIN projects' = DOMAIN projects
            /\ \A x \in DOMAIN projects :
                 IF x = req[p].proj
                   THEN /\ projects'[x].updated_at >= projects[x].updated_at
                        /\ projects'[x].updated_at = now'
                        /\ [projects'[x] EXCEPT !.updated_at = 0]
                             = [projects[x] EXCEPT !.updated_at = 0]
                   ELSE projects'[x] = projects[x]]_vars

\* C16 amended: as above, with summary_final equal to the submitted text
\* without its leading and trailing whitespace.
C16_PublishStoresTrimmedText ==
  [][\A p \in Procs :
       /\ ( /\ Steps(p, "publish", "update")
            /\ req[p].target \in DOMAIN changelogs
            /\ changelogs[req[p].target].status = "draft" )
          => LET t == req[p].target IN
               /\ DOMAIN changelogs' = DOMAIN changelogs
               /\ changelogs'[t].status = "published"
               /\ changelogs'[t].summary_final = Trim(req[p].text)
               /\ changelogs'[t].published_at = now'
               /\ now' >= now
               /\ \A x \in DOMAIN changelogs \ {t} : changelogs'[x] = changelogs[x]
               /\ projects' = projects
       /\ Steps(p, "publish", "touch") =>
            /\ changelogs' = changelogs
            /\ DOMAIN projects' = DOMAIN projects
            /\ \A x \in DOMAIN projects :
                 IF x = req[p].proj
                   THEN /\ projects'[x].updated_at >= projects[x].updated_at
                        /\ projects'[x].updated_at = now'
                        /\ [projects'[x] EXCEPT !.updated_at = 0]
                             = [projects[x] EXCEPT !.updated_at = 0]
                   ELSE projects'[x] = projects[x]]_vars

C16_Witness ==
  \E p \in Procs :
    /\ req[p].kind = "publish" /\ req[p].pc = "done" /\ req[p].status = 200
    /\ changelogs = (2 :> [SeedChangelogs[2] EXCEPT
                              !.status = "published", !.published_at = 1,
                              !.summary_final = <<"Added X">>])
    /\ projects = (1 :> [SeedProjects[1] EXCEPT !.updated_at = 1])

C19_ConcurrentPublishOnce ==
  [][\A p \in Procs :
       /\ ( /\ Steps(p, "publish", "update")
            /\ req[p].target \in DOMAIN changelogs
            /\ changelogs[req[p].target].status = "published" )
          => /\ changelogs' = changelogs
             /\ req'[p].pc = "done" /\ req'[p].status = 409
       /\ \A c \in DOMAIN changelogs \cap DOMAIN changelogs' :
            changelogs[c].status = "published" =>
              /\ changelogs'[c].summary_final = changelogs[c].summary_final
              /\ changelogs'[c].published_at = changelogs[c].published_at]_vars

\* ------------------------------------------------------------------- C20
\* C20: a changelog that is published stays published, with a published_at,
\* in every step that does not delete it.
C20_PublishedStaysPublished ==
  [][\A c \in DOMAIN changelogs \cap DOMAIN changelogs' :
       changelogs[c].status = "published" =>
         /\ changelogs'[c].status = "published"
         /\ changelogs'[c].published_at # NoTime]_vars

C20_Witness ==
  \E c \in DOMAIN changelogs, p, q \in Procs :
    /\ changelogs[c].status = "published"
    /\ req[p].kind = "publish" /\ req[p].pc = "done" /\ req[p].status = 200
    /\ req[q].kind \in {"generate", "deleteProject", "list"}
    /\ req[q].pc \in {"touch", "delproj", "done"}
    /\ req[q].kind = "generate" => req[q].proj = changelogs[c].project_id

\* ------------------------------------------------------------------- C21
\* C21: for a repository of N commits and an accepted count c, a fetch that
\* does not fail returns exactly the first min(c, N) commits in the order of
\* the remote log; a turn of the page loop is the last one exactly when c
\* commits are collected or the page came back empty; and the loop ends:
\* every turn that is not the last one adds at least one commit and leaves
\* fewer than c collected, so there are at most c / perPage + 1 turns.
C21_FetchReturnsFirstCommits ==
  [][\A p \in Procs :
       Steps(p, "fetch", "page") /\ req'[p].text = <<>> =>
         LET c == req[p].commit_count
             n == req[p].remote
             perPage == Min(c, GitHubPerPage)
             empty == n <= req[p].page * perPage
         IN  /\ (req'[p].pc = "done") <=> (Len(req'[p].commits) >= c \/ empty)
             /\ req'[p].pc = "done" =>
                  req'[p].commits = SubSeq(RemoteLog(n), 1, Min(c, n))
             /\ req'[p].pc = "page" =>
                  /\ req'[p].commits =
                       SubSeq(RemoteLog(n), 1, Len(req'[p].commits))
                  /\ Len(req[p].commits) < Len(req'[p].commits)
                  /\ Len(req'[p].commits) < c
             /\ req'[p].page = req[p].page + 1
             /\ req'[p].page <= (c \div perPage) + 1]_vars

C21_Witness ==
  \E p, q \in Procs :
    /\ req[p].kind = "fetch" /\ req[p].pc = "done" /\ req[p].text = <<>>
    /\ req[p].commit_count = 1000 /\ req[p].page = 3
    /\ req[p].commits = RemoteLog(150)
    /\ req[q].kind = "fetch" /\ req[q].pc = "done" /\ req[q].text = <<>>
    /\ req[q].commit_count = 101 /\ req[q].page = 2
    /\ req[q].commits = RemoteLog(101)

\* ------------------------------------------------------------------- C22
\* The failure kinds the specification names: 401 and 403 from the commit
\* source are both AccessDenied; every other upstream failure is a kind of
\* its own.
C22_Kind(failure) ==
  IF failure \in {<<"source", "401">>, <<"source", "403">>}
    THEN <<"source", "denied">>
  ELSE failure

\* C22: two generate requests that ended on upstream failures of the same
\* provider but of different named kinds were answered with different
\* statuses.
C22_DistinctKindsDistinctStatuses ==
  \A p, q \in Procs :
    ( /\ req[p].kind = "generate" /\ req[p].pc = "done"
      /\ req[q].kind = "generate" /\ req[q].pc = "done"
      /\ req[p].failure \notin {<<>>, <<"llm", "other">>}
      /\ req[q].failure \notin {<<>>, <<"llm", "other">>}
      /\ req[p].failure[1] \in {"source", "llm"}
      /\ req[p].failure[1] = req[q].failure[1]
      /\ C22_Kind(req[p].failure) # C22_Kind(req[q].failure) )
    => req[p].status # req[q].status

\* ------------------------------------------------------------------- C23
\* A generate request is turned away in its first step although its body is
\* valid and its caller is signed in: the repository-access check said no.
C23_AccessRefused(p) ==
  /\ Begins(p, "generate")
  /\ req'[p].bodyOk /\ IsAuthenticated(req'[p].session)
  /\ req'[p].pc = "done"

\* C23: a generate request of a signed-in caller whose repository-access
\* check yields canAccess = false is answered 403, and it has looked up,
\* created or changed no project, fetched no commits and made no model call.
C23_AccessRefusedIs403 ==
  [][\A p \in Procs :
       C23_AccessRefused(p) =>
         /\ req'[p].status = 403
         /\ UNCHANGED <<projects, changelogs, nextId>>
         /\ req'[p].proj = 0 /\ req'[p].commits = <<>>
         /\ req'[p].llm = "none"]_vars

\* ------------------------------------------------------------------- C24
\* C24: no step changes the name of a project that stays in the store, and
\* no step changes an owner_id that is set: owner_id is written only while
\* it is absent.
C24_NameAndSetOwnerKept ==
  [][\A i \in DOMAIN projects \cap DOMAIN projects' :
       /\ projects'[i].name = projects[i].name
       /\ projects[i].owner_id # NULL =>
            projects'[i].owner_id = projects[i].owner_id]_vars

\* ------------------------------------------------------------------- C25
\* The connection attempts in flight.
C25_InFlight == {k \in DOMAIN promises : promises[k] = "pending"}

\* C25: starting from an empty cache, at most one connection attempt is in
\* flight at any time and all callers that complete hold the same
\* connection; a caller whose awaited attempt failed fails, the failure
\* clears the promise in the cache, and a call that finds neither a
\* connection nor a promise starts a fresh attempt.
C25_OneAttemptInFlight ==
  /\ [](Cardinality(C25_InFlight) <= 1)
  /\ [](\A p, q \in Procs :
          ( /\ req[p].kind = "connect" /\ req[p].result # <<>>
            /\ req[q].kind = "connect" /\ req[q].result # <<>> )
          => req[p].result = req[q].result)
  /\ [][\A p \in Procs :
          /\ ( /\ Steps(p, "connect", "await39") \/ Steps(p, "connect", "await68")
               /\ promises[req[p].target] = "rejected" )
             => req'[p].pc = "done" /\ req'[p].result = <<>>
                /\ req'[p].text = MsgConnectFailed
          /\ ( /\ Begins(p, "connect")
               /\ global_mongoose.conn = NULL /\ global_mongoose.promise = NoPromise )
             => /\ Len(promises') = Len(promises) + 1
                /\ global_mongoose'.promise = Len(promises')
                /\ promises'[Len(promises')] = "pending"]_vars
  /\ [][\A k \in DOMAIN promises :
          (promises[k] = "pending" /\ promises'[k] = "rejected")
            => global_mongoose'.promise = NoPromise]_vars

C28_DeletedNeverResurrected ==
  [][/\ \A c \in Ids :
          (c < nextId /\ c \notin DOMAIN changelogs)
            => c \notin DOMAIN changelogs'
     /\ \A p \in Procs :
          ( Steps(p, "publish", "update")
            /\ req[p].target \notin DOMAIN changelogs )
          => /\ req'[p].pc = "done" /\ req'[p].status = 500
             /\ changelogs' = changelogs /\ projects' = projects]_vars

\* Changelog 2 was deleted by its creator while a publish request for it was
\* between its lookup and its update; the publish request answered 500.
C28_Witness ==
  \E p, q \in Procs :
    /\ 2 \notin DOMAIN changelogs
    /\ req[p].kind = "publish" /\ req[p].pc = "done" /\ req[p].status = 500
    /\ req[q].kind = "deleteChangelog" /\ req[q].pc = "done"
    /\ req[q].status = 200

\* ------------------------------------------------------------------- C29
\* C29: requireAuth yields a user identity only when no step threw, the
\* session it ended up with has both githubId and accessToken, and a User
\* record exists for that githubId, and then it is that user's identity; in
\* every other case it ends with 'Authentication required' and no identity.
C29_AuthFailsClosed ==
  \A p \in Procs :
    (req[p].kind = "auth" /\ req[p].pc = "done") =>
      LET s == req[p].session
          granted == /\ req[p].failure = <<>>
                     /\ s # NoSession
                     /\ SessionGithubId(s) # NULL
                     /\ SessionAccessToken(s) # NULL
                     /\ FindUser(SessionGithubId(s)) # NULL
      IN  IF granted
            THEN /\ req[p].result = <<FindUser(SessionGithubId(s))>>
                 /\ req[p].text = <<>>
            ELSE /\ req[p].result = <<>>
                 /\ req[p].text = MsgAuthRequired

\* One call was denied because the session has no accessToken, another
\* because the user query threw although the session was complete.
C29_Witness ==
  \E p, q \in Procs :
    /\ req[p].kind = "auth" /\ req[p].pc = "done" /\ req[p].session = "u1_notoken"
    /\ req[p].result = <<>>
    /\ req[q].kind = "auth" /\ req[q].pc = "done" /\ req[q].session = "u1"
    /\ req[q].failure = <<"auth", "user">> /\ req[q].result = <<>>

====
